---- MODULE Spec2Model ----
(***************************************************************************)
(* Model of wifi_portal/app.py: the /configure handler and the background *)
(* script (config_script) that it writes and launches with Popen.         *)
(*                                                                         *)
(* Strings are sequences of one-character strings.  Every launched        *)
(* background script is one entry of `attempts`, with `pc` naming the     *)
(* script line it is about to execute.  `response` is the last answer a    *)
(* handler returned.  `input` is the argument handed to a function that is *)
(* examined on its own (ScanSpec, ValidatorSpec); Spec and PortalSpec      *)
(* leave it at NoInput.                                                    *)
(*                                                                         *)
(* Spec is /configure with its scripts; PortalSpec adds /scan and /status, *)
(* which read external state and write neither `attempts` nor `apUp`.      *)
(***************************************************************************)
EXTENDS Integers, Sequences, FiniteSets, TLC

VARIABLES attempts, apUp, response, input

vars == <<attempts, apUp, response, input>>

(* ------------------------------ bounds -------------------------------- *)

\* Number of accepted /configure requests (launched scripts) explored.
MaxAttempts == 2

\* Number of lines in a scan output handed to get_available_networks.
MaxScanLines == 3

\* Length of the longest string handed to the validators on their own.
MaxTextLen == 65

(* ------------------------- program constants -------------------------- *)

AP_CONNECTION_NAME == <<"W","i","F","i","-","S","e","t","u","p","-","A","P">>

\* The fixed third positional argument of the join executable.
Priority == 200

MaxSsidLen == 32
MinPasswordLen == 8
MaxPasswordLen == 63

(* ------------------------------ strings ------------------------------- *)

\* The string made of n copies of character c.
RECURSIVE Rep(_, _)
Rep(c, n) == IF n = 0 THEN <<>> ELSE Append(Rep(c, n - 1), c)

\* Whitespace of the modelled alphabet.
IsSpace(c) == c \in {" ", "\n"}

RECURSIVE lstrip(_)
lstrip(s) == IF s # <<>> /\ IsSpace(Head(s)) THEN lstrip(Tail(s)) ELSE s

RECURSIVE rstrip(_)
rstrip(s) ==
    IF s # <<>> /\ IsSpace(s[Len(s)]) THEN rstrip(SubSeq(s, 1, Len(s) - 1)) ELSE s

\* str.strip()
strip(s) == rstrip(lstrip(s))

(* ------------------------ credential validation ----------------------- *)

\* Variant: the upper bound is exclusive.
validate_ssid_exclusive(ssid) ==
    IF ssid = <<>> \/ Len(ssid) >= MaxSsidLen THEN FALSE ELSE TRUE

validate_ssid(ssid) ==
    IF ssid = <<>> \/ Len(ssid) > MaxSsidLen THEN FALSE ELSE TRUE

validate_password(password) ==
    IF password = <<>> THEN FALSE
    ELSE IF Len(password) < MinPasswordLen \/ Len(password) > MaxPasswordLen THEN FALSE
    ELSE TRUE

(* --------------------- grep -q "{ssid}" over nmcli -------------------- *)

\* A basic-regular-expression character: "." matches any character, any
\* other character of the modelled alphabet matches itself.
CharMatches(p, c) == p = "." \/ p = c

MatchesAt(line, pat, i) ==
    /\ i + Len(pat) - 1 <= Len(line)
    /\ \A j \in 1..Len(pat) : CharMatches(pat[j], line[i + j - 1])

\* grep selects a line when the pattern matches anywhere in it.
LineMatches(line, pat) == \E i \in 1..(Len(line) + 1) : MatchesAt(line, pat, i)

\* nmcli ... | grep -q pat : exit status 0 iff some output line matches.
GrepQ(lines, pat) == \E l \in lines : LineMatches(l, pat)

(* ------------------------------ inputs -------------------------------- *)

\* Request bodies posted to /configure.  hasBody = FALSE is a request for
\* which request.get_json() yields no object.
Req(hasBody, ssid, password, hidden) ==
    [hasBody |-> hasBody, ssid |-> ssid, password |-> password, hidden |-> hidden]

Requests ==
    { Req(TRUE,  <<" ","a","b"," ">>,   Rep("p", 63), TRUE),
      Req(TRUE,  <<"i">>,               <<"\\","\\">> \o Rep("p", 6), FALSE),
      Req(TRUE,  <<" "," ">>,           Rep("p", 8),  FALSE),
      Req(TRUE,  Rep("a", 33),          Rep("p", 10), FALSE),
      Req(TRUE,  <<"a","b">>,           Rep("p", 7),  TRUE),
      Req(TRUE,  <<"a","b">>,           Rep("p", 64), FALSE),
      Req(FALSE, <<>>,                  <<>>,         FALSE) }

\* What NamedTemporaryFile/chmod/Popen do when /configure reaches them: they
\* succeed, or one of them raises (all of them raise into the same handler).
LaunchResults == {"ok", "launch_error"}

\* Active connections other than the setup AP that
\* `nmcli -t -f NAME connection show --active` may list.
OtherActive ==
    { {}, {<<"a","b">>}, {<<"x","a","b">>} }

\* Exit behaviour of an external command: it returns zero, returns
\* non-zero, or never returns.
CmdResults == {"exit0", "exit1", "hang"}

\* A call of /configure: the request and what the launch would do.  The
\* launch is only reached by a request that passes validation, so a failing
\* launch is only drawn for those.
ReachesLaunch(req) ==
    req.hasBody /\ validate_ssid(strip(req.ssid)) /\ validate_password(req.password)

Calls ==
    UNION { IF c[2] = "ok" \/ ReachesLaunch(c[1]) THEN {c} ELSE {}
            : c \in Requests \X LaunchResults }

(* ----------------------------- responses ------------------------------ *)

Response(status, success, message) ==
    [status |-> status, success |-> success, message |-> message]

\* No request has been answered yet.
NoResponse == Response(0, FALSE, "none")

\* No function is being examined on its own.
NoInput == [kind |-> "none"]

(* ------------------------- run_command and /scan ---------------------- *)

\* What run_command returns for a command that exited with `code` and wrote
\* `stdout`, or that exceeded its timeout or could not be started.
run_command(cmd) ==
    IF cmd.ended = "exit" THEN [code |-> cmd.code, stdout |-> cmd.stdout]
    ELSE [code |-> -1, stdout |-> <<>>]

\* str.split(sep) for a one-character separator.
RECURSIVE SplitFrom(_, _, _, _)
SplitFrom(s, sep, i, cur) ==
    IF i > Len(s) THEN <<cur>>
    ELSE IF s[i] = sep THEN <<cur>> \o SplitFrom(s, sep, i + 1, <<>>)
    ELSE SplitFrom(s, sep, i + 1, Append(cur, s[i]))

split(s, sep) == SplitFrom(s, sep, 1, <<>>)

Digits == {"0", "1", "2", "3", "4", "5", "6", "7", "8", "9"}

\* str.isdigit() on the modelled alphabet.
isdigit(s) == s # <<>> /\ \A i \in 1..Len(s) : s[i] \in Digits

DigitValue(c) ==
    CASE c = "0" -> 0 [] c = "1" -> 1 [] c = "2" -> 2 [] c = "3" -> 3 [] c = "4" -> 4
      [] c = "5" -> 5 [] c = "6" -> 6 [] c = "7" -> 7 [] c = "8" -> 8 [] c = "9" -> 9

\* int(s) for a string of digits.
RECURSIVE int(_)
int(s) == IF s = <<>> THEN 0 ELSE 10 * int(SubSeq(s, 1, Len(s) - 1)) + DigitValue(s[Len(s)])

Placeholder == <<"-", "-">>

\* Variant: the key compares the signal as text turned into a number only
\* when it has one digit.
SignalKeyOneDigit(network) ==
    IF isdigit(network.signal) /\ Len(network.signal) = 1 THEN int(network.signal) ELSE 0

\* key=lambda x: int(x['signal']) if x['signal'].isdigit() else 0
SignalKey(network) == IF isdigit(network.signal) THEN int(network.signal) ELSE 0

\* The dictionary appended for a line with the given fields.
Network(parts) ==
    LET security == IF Len(parts) > 2 THEN parts[3] ELSE <<>> IN
    [ssid    |-> parts[1],
     signal  |-> IF Len(parts) > 1 THEN parts[2] ELSE <<"0">>,
     secured |-> (security # <<>> /\ security # Placeholder)]

\* Variant: duplicates are not skipped.
KeepsLineNoDedup(parts, seen_ssids) ==
    /\ Len(parts) >= 2
    /\ parts[1] # <<>> /\ parts[1] # Placeholder

\* Whether the loop body appends a network for this line.
KeepsLine(parts, seen_ssids) ==
    /\ Len(parts) >= 2
    /\ parts[1] # <<>> /\ parts[1] \notin seen_ssids /\ parts[1] # Placeholder

\* The for loop over the lines, from line i on.
RECURSIVE ScanLines(_, _, _, _)
ScanLines(lines, i, networks, seen_ssids) ==
    IF i > Len(lines) THEN networks
    ELSE LET line  == lines[i]
             parts == split(line, ":") IN
         IF line = <<>> THEN ScanLines(lines, i + 1, networks, seen_ssids)
         ELSE IF KeepsLine(parts, seen_ssids)
              THEN ScanLines(lines, i + 1, Append(networks, Network(parts)),
                             seen_ssids \cup {parts[1]})
              ELSE ScanLines(lines, i + 1, networks, seen_ssids)

\* list.sort(key=..., reverse=True): a stable sort, largest key first.
RECURSIVE InsertByKeyDesc(_, _)
InsertByKeyDesc(sorted, x) ==
    IF sorted = <<>> THEN <<x>>
    ELSE IF SignalKey(Head(sorted)) >= SignalKey(x)
         THEN <<Head(sorted)>> \o InsertByKeyDesc(Tail(sorted), x)
         ELSE <<x>> \o sorted

RECURSIVE SortFrom(_, _, _)
SortFrom(networks, i, sorted) ==
    IF i > Len(networks) THEN sorted
    ELSE SortFrom(networks, i + 1, InsertByKeyDesc(sorted, networks[i]))

SortBySignal(networks) == SortFrom(networks, 1, <<>>)

\* get_available_networks, given what run_command returned.
get_available_networks(result) ==
    SortBySignal(IF result.code = 0
                 THEN ScanLines(split(strip(result.stdout), "\n"), 1, <<>>, {})
                 ELSE <<>>)

\* jsonify({'networks': networks})
ScanResponse(networks) == [status |-> 200, networks |-> networks]

\* GET /scan, with cmd what the nmcli scan query does.
scan_networks(cmd) ==
    /\ response' = ScanResponse(get_available_networks(run_command(cmd)))
    /\ UNCHANGED <<attempts, apUp, input>>

\* Lines that `nmcli -t -f SSID,SIGNAL,SECURITY device wifi list` may print,
\* well-formed and not: secured and open networks, a repeated SSID, the
\* "--" placeholder, an empty SSID, a non-numeric, an empty and a missing
\* signal, signals of one, two and three digits, and a blank line.
ScanLinePool ==
    { <<"a","b",":","8","0",":","W">>,
      <<"a","b",":","6","0",":","W">>,
      <<"-","-",":","0",":">>,
      <<"c","d",":","x",":","-","-">>,
      <<"c","d",":","9">>,
      <<":","5","0",":","W">>,
      <<"e",":","1","0","0",":">>,
      <<"a","b">>,
      <<"f",":">>,
      <<>> }

\* The sequences of at most n lines.
RECURSIVE LineSeqs(_)
LineSeqs(n) ==
    IF n = 0 THEN {<<>>}
    ELSE LET shorter == LineSeqs(n - 1) IN
         shorter \cup UNION { {Append(ls, l) : l \in ScanLinePool} : ls \in shorter }

\* The text of an output: every line followed by a newline.
RECURSIVE JoinLines(_)
JoinLines(ls) == IF ls = <<>> THEN <<>> ELSE Head(ls) \o <<"\n">> \o JoinLines(Tail(ls))

Exited(code, stdout) == [ended |-> "exit", code |-> code, stdout |-> stdout]

\* subprocess.TimeoutExpired
TimedOut == [ended |-> "timeout", code |-> 0, stdout |-> <<>>]

\* The scan query: it prints some lines and exits 0, exits non-zero (with
\* or without output), or exceeds the timeout.
ScanCmds ==
    UNION { {Exited(0, JoinLines(ls)), Exited(1, JoinLines(ls))} : ls \in LineSeqs(MaxScanLines) }
      \cup {TimedOut}

(* ------------------------------- /status ------------------------------ *)

\* An optional value: <<>> is None, <<x>> is x.
None == <<>>
Some(x) == <<x>>

NotAvailable == <<"N", "/", "A">>

\* jsonify({'connected': ..., 'ssid': ..., 'ip': ...})
StatusResponse(connected, ssid, ip) ==
    [status |-> 200, connected |-> connected, ssid |-> ssid, ip |-> ip]

\* Variant: a failing details query still reports a connection.
StatusResultTrusting(first, second) ==
    IF first.code = 0
    THEN LET parts == split(split(strip(second.stdout), "\n")[1], ":") IN
         StatusResponse(TRUE, Some(parts[1]),
                        Some(IF Len(parts) > 1 THEN parts[2] ELSE NotAvailable))
    ELSE StatusResponse(FALSE, None, None)

\* What status() returns, given what its two run_command calls returned
\* (the second is only made when the first returned code 0).
StatusResult(first, second) ==
    IF first.code = 0 /\ second.code = 0
    THEN LET parts == split(split(strip(second.stdout), "\n")[1], ":") IN
         StatusResponse(TRUE, Some(parts[1]),
                        Some(IF Len(parts) > 1 THEN parts[2] ELSE NotAvailable))
    ELSE StatusResponse(FALSE, None, None)

\* GET /status, with cmd1 and cmd2 what the two nmcli | grep pipelines do.
status(cmd1, cmd2) ==
    /\ response' = StatusResult(run_command(cmd1), run_command(cmd2))
    /\ UNCHANGED <<attempts, apUp, input>>

\* The /configure calls made next to /scan and /status: one that is
\* accepted and launched, one that is rejected.
PortalCalls ==
    UNION { IF c[2] = "ok" /\ strip(c[1].ssid) \in {<<"i">>, <<>>}
                           /\ c[1].hasBody
            THEN {c} ELSE {} : c \in Calls }

\* What the portal's scan query does in the model of the whole portal.
PortalScanCmds ==
    { Exited(0, JoinLines(<< <<"a","b",":","8","0",":","W">> >>)),
      Exited(1, JoinLines(<< <<"a","b",":","8","0",":","W">> >>)),
      TimedOut }

\* What the two status pipelines do: grep exits 0 with the matching lines,
\* exits 1 without a match, or the pipeline exceeds the timeout.  The second
\* pipeline only runs after the first exited 0.
StatusCalls ==
    LET found   == Exited(0, JoinLines(<< <<"w",":","a">> >>))
        details == Exited(0, JoinLines(<< <<"a","b",":","1">> >>))
        nothing == Exited(1, <<>>)
    IN  { <<found, details>>, <<found, nothing>>, <<found, TimedOut>>,
          <<nothing, nothing>>, <<TimedOut, nothing>> }

(* ------------------------- the /configure handler --------------------- *)

\* File name of the join executable (its directory is left out).
CONFIGURE_WIFI_SCRIPT ==
    <<"c","o","n","f","i","g","u","r","e","_","w","i","f","i",".","s","h">>

Quoted(text) == <<"\"">> \o text \o <<"\"">>

\* The command line built for the join executable: the request's strings
\* are pasted between double quotes, character for character.
BuildCmd(ssid, password, hidden) ==
    <<"b","a","s","h"," ">> \o Quoted(CONFIGURE_WIFI_SCRIPT)
        \o <<" ">> \o Quoted(ssid)
        \o <<" ">> \o Quoted(password)
        \o <<" ","2","0","0">>
        \o (IF hidden THEN <<" ","-","-","h","i","d","d","e","n">> ELSE <<>>)

\* How bash splits a command line into words, one character at a time.
\* Blanks separate words outside double quotes; a double quote opens or
\* closes a quoted part; a backslash is dropped and the next character
\* taken literally, except that inside quotes it does so only before a
\* backslash, a double quote or a dollar sign and otherwise stays.
\* Parameter expansion and command substitution are not part of this
\* fragment.
WordStates ==
    [inQuote : BOOLEAN, inWord : BOOLEAN, esc : BOOLEAN,
     word : Seq(STRING), words : Seq(Seq(STRING))]

WordStart ==
    [inQuote |-> FALSE, inWord |-> FALSE, esc |-> FALSE,
     word |-> <<>>, words |-> <<>>]

WordStep(s, c) ==
    IF s.esc
    THEN [s EXCEPT !.esc = FALSE,
                   !.word = IF s.inQuote /\ c \notin {"\\", "\"", "$"}
                            THEN @ \o <<"\\", c>> ELSE Append(@, c)]
    ELSE IF c = "\\" THEN [s EXCEPT !.esc = TRUE, !.inWord = TRUE]
    ELSE IF c = "\"" THEN [s EXCEPT !.inQuote = ~@, !.inWord = TRUE]
    ELSE IF c = " " /\ ~s.inQuote
    THEN IF s.inWord
         THEN [s EXCEPT !.inWord = FALSE, !.word = <<>>,
                        !.words = Append(@, s.word)]
         ELSE s
    ELSE [s EXCEPT !.inWord = TRUE, !.word = Append(@, c)]

\* The characters of text read in order, left half before right half.
RunWords(text) ==
    LET run[a \in [s : WordStates, lo : Nat, hi : Nat]] ==
            IF a.lo > a.hi THEN a.s
            ELSE IF a.lo = a.hi THEN WordStep(a.s, text[a.lo])
            ELSE LET mid == (a.lo + a.hi) \div 2 IN
                 run[[s  |-> run[[s |-> a.s, lo |-> a.lo, hi |-> mid]],
                      lo |-> mid + 1, hi |-> a.hi]]
    IN  run[[s |-> WordStart, lo |-> 1, hi |-> Len(text)]]

BashWords(text) ==
    LET end  == RunWords(text)
        last == IF end.esc THEN Append(end.word, "\\") ELSE end.word
    IN  IF end.inWord THEN Append(end.words, last) ELSE end.words

\* The one word bash makes of "{text}", as in grep -q "{ssid}".
ShellWord(text) == BashWords(Quoted(text))[1]

\* Variant: the handler waits for the join executable before it answers
\* (the join is run in the request path, the script starts at its sleep).
NewAttemptAfterJoin(ssid, password, hidden, ap) ==
    [ssid      |-> ssid,
     cmd       |-> BuildCmd(ssid, password, hidden),
     pc        |-> "sleep30",
     join      |-> "exit0",
     grace     |-> FALSE,
     matched   |-> FALSE,
     exact     |-> FALSE,
     teardowns |-> 0,
     outcome   |-> "none",
     apAtStart |-> ap]

\* The script written to the temporary file and started with Popen: it is
\* about to run its first command.  apAtStart records the AP state at launch.
NewAttempt(ssid, password, hidden, ap) ==
    [ssid      |-> ssid,
     cmd       |-> BuildCmd(ssid, password, hidden),
     pc        |-> "join",
     join      |-> "pending",
     grace     |-> FALSE,
     matched   |-> FALSE,
     exact     |-> FALSE,
     teardowns |-> 0,
     outcome   |-> "none",
     apAtStart |-> ap]

\* Variant: the passphrase is never validated.
ConfigureOutcomeNoPasswordCheck(req, launch) ==
    IF ~req.hasBody THEN "error"
    ELSE IF ~validate_ssid(strip(req.ssid)) THEN "bad_ssid"
    ELSE IF launch # "ok" THEN "error"
    ELSE "started"

\* Variant: an exception raised while launching is swallowed.
ConfigureOutcomeIgnoresLaunch(req, launch) ==
    IF ~req.hasBody THEN "error"
    ELSE IF ~validate_ssid(strip(req.ssid)) THEN "bad_ssid"
    ELSE IF ~validate_password(req.password) THEN "bad_password"
    ELSE "started"

\* Which return statement of configure_wifi is reached.
ConfigureOutcome(req, launch) ==
    IF ~req.hasBody THEN "error"
    ELSE IF ~validate_ssid(strip(req.ssid)) THEN "bad_ssid"
    ELSE IF ~validate_password(req.password) THEN "bad_password"
    ELSE IF launch # "ok" THEN "error"
    ELSE "started"

ConfigureResponse(outcome) ==
    CASE outcome = "bad_ssid"     -> Response(400, FALSE, "invalid_ssid")
      [] outcome = "bad_password" -> Response(400, FALSE, "invalid_password")
      [] outcome = "error"        -> Response(500, FALSE, "error")
      [] outcome = "started"      -> Response(200, TRUE,  "started")

configure_wifi(req, launch) ==
    LET outcome == ConfigureOutcome(req, launch) IN
    /\ outcome = "started" => Len(attempts) < MaxAttempts
    /\ response' = ConfigureResponse(outcome)
    /\ attempts' =
         IF outcome = "started"
         THEN Append(attempts,
                     NewAttempt(strip(req.ssid), req.password, req.hidden, apUp))
         ELSE attempts
    /\ UNCHANGED <<apUp, input>>

(* ------------------------ the background script ----------------------- *)

\* Variant: the AP is torn down after a short delay, without verification.
JoinReturnedThenTeardown(att, res) ==
    [att EXCEPT !.join = res, !.pc = "sleep5"]

\* Variant: a rejected join ends the script at once (as under `set -e`).
JoinReturnedShortCircuit(att, res) ==
    IF res = "exit0"
    THEN [att EXCEPT !.join = res, !.pc = "sleep30"]
    ELSE [att EXCEPT !.join = res, !.pc = "done", !.outcome = "FailedKeepAP"]

\* Variant: the active connections are checked as soon as the join returns.
JoinReturnedNoGrace(att, res) ==
    [att EXCEPT !.join = res, !.pc = "check"]

\* {cmd} >> "$LOG_FILE" 2>&1 has returned with the given exit status.
JoinReturned(att, res) ==
    [att EXCEPT !.join = res, !.pc = "sleep30"]

\* bash "{CONFIGURE_WIFI_SCRIPT}" ... : the join executable.
RunJoin(a) ==
    /\ a \in 1..Len(attempts)
    /\ attempts[a].pc = "join"
    /\ \E res \in CmdResults :
         attempts' = [attempts EXCEPT ![a] =
                        IF res = "hang" THEN [@ EXCEPT !.pc = "join_blocked"]
                        ELSE JoinReturned(@, res)]
    /\ UNCHANGED <<apUp, response, input>>

\* sleep 30
Sleep30(a) ==
    /\ a \in 1..Len(attempts)
    /\ attempts[a].pc = "sleep30"
    /\ attempts' = [attempts EXCEPT ![a] = [@ EXCEPT !.grace = TRUE, !.pc = "check"]]
    /\ UNCHANGED <<apUp, response, input>>

\* Output lines of `nmcli -t -f NAME connection show --active`.
ActiveNames(ap, others) == (IF ap THEN {AP_CONNECTION_NAME} ELSE {}) \cup others

\* What the pipe's left side may print: the active connections, or nothing
\* when nmcli itself fails.
NmcliOutputs(ap) == {ActiveNames(ap, others) : others \in OtherActive} \cup {{}}

\* Variant: the else branch also falls through to the teardown.
CheckDecidedAlwaysTeardown(att, lines) ==
    IF GrepQ(lines, ShellWord(att.ssid))
    THEN [att EXCEPT !.matched = TRUE, !.exact = (att.ssid \in lines),
                     !.outcome = "Connected", !.pc = "sleep5"]
    ELSE [att EXCEPT !.matched = FALSE, !.exact = (att.ssid \in lines),
                     !.outcome = "FailedKeepAP", !.pc = "sleep5"]

\* if nmcli ... | grep -q "{ssid}"; then ... else ... fi
\* The pattern is the word bash makes of "{ssid}".
\* matched is grep's verdict; exact records whether a listed connection is
\* named exactly like the requested SSID.
CheckDecided(att, lines) ==
    IF GrepQ(lines, ShellWord(att.ssid))
    THEN [att EXCEPT !.matched = TRUE, !.exact = (att.ssid \in lines),
                     !.outcome = "Connected", !.pc = "sleep5"]
    ELSE [att EXCEPT !.matched = FALSE, !.exact = (att.ssid \in lines),
                     !.outcome = "FailedKeepAP", !.pc = "done"]

Check(a) ==
    /\ a \in 1..Len(attempts)
    /\ attempts[a].pc = "check"
    /\ \/ \E lines \in NmcliOutputs(apUp) :
            attempts' = [attempts EXCEPT ![a] = CheckDecided(@, lines)]
       \/ attempts' = [attempts EXCEPT ![a] = [@ EXCEPT !.pc = "check_blocked"]]
    /\ UNCHANGED <<apUp, response, input>>

\* sleep 5
Sleep5(a) ==
    /\ a \in 1..Len(attempts)
    /\ attempts[a].pc = "sleep5"
    /\ attempts' = [attempts EXCEPT ![a] = [@ EXCEPT !.pc = "teardown"]]
    /\ UNCHANGED <<apUp, response, input>>

\* Variant: after a failing teardown command the script re-activates the AP.
TeardownRearmsOnFailure(a) ==
    /\ a \in 1..Len(attempts)
    /\ attempts[a].pc = "teardown"
    /\ \E res \in CmdResults :
         /\ res = "exit0" => apUp
         /\ attempts' = [attempts EXCEPT ![a] =
                           [@ EXCEPT !.teardowns = @ + 1,
                                     !.pc = IF res = "hang" THEN "teardown_blocked"
                                            ELSE "done"]]
         /\ apUp' = (res = "exit1")
    /\ UNCHANGED <<response, input>>

\* Variant: without `|| true`, a failing teardown command fails the attempt.
TeardownFailureIsError(a) ==
    /\ a \in 1..Len(attempts)
    /\ attempts[a].pc = "teardown"
    /\ \E res \in CmdResults :
         /\ res = "exit0" => apUp
         /\ attempts' = [attempts EXCEPT ![a] =
                           [@ EXCEPT !.teardowns = @ + 1,
                                     !.outcome = IF res = "exit1"
                                                 THEN "FailedKeepAP" ELSE @,
                                     !.pc = IF res = "hang" THEN "teardown_blocked"
                                            ELSE "done"]]
         /\ apUp' = IF res = "exit0" THEN FALSE ELSE apUp
    /\ UNCHANGED <<response, input>>

\* nmcli connection down "{AP_CONNECTION_NAME}" 2>/dev/null || true
\* exit0: the AP connection was deactivated.  exit1: nmcli reported an
\* error (for instance the connection is not active) and changed nothing.
Teardown(a) ==
    /\ a \in 1..Len(attempts)
    /\ attempts[a].pc = "teardown"
    /\ \E res \in CmdResults :
         /\ res = "exit0" => apUp
         /\ attempts' = [attempts EXCEPT ![a] =
                           [@ EXCEPT !.teardowns = @ + 1,
                                     !.pc = IF res = "hang" THEN "teardown_blocked"
                                            ELSE "done"]]
         /\ apUp' = IF res = "exit0" THEN FALSE ELSE apUp
    /\ UNCHANGED <<response, input>>

ScriptStep(a) ==
    RunJoin(a) \/ Sleep30(a) \/ Check(a) \/ Sleep5(a) \/ Teardown(a)

(* ---------------------------- specification --------------------------- *)

Init ==
    /\ attempts = <<>>
    /\ apUp = TRUE
    /\ response = NoResponse
    /\ input = NoInput

Configure == \E c \in Calls : configure_wifi(c[1], c[2])

Join == \E a \in 1..MaxAttempts : RunJoin(a)
Grace == \E a \in 1..MaxAttempts : Sleep30(a)
Verify == \E a \in 1..MaxAttempts : Check(a)
Settle == \E a \in 1..MaxAttempts : Sleep5(a)
ApDown == \E a \in 1..MaxAttempts : Teardown(a)

Next == Configure \/ Join \/ Grace \/ Verify \/ Settle \/ ApDown

Spec == Init /\ [][Next]_vars

\* bash runs a script's commands one after another: a script whose next
\* command can run does eventually run it.
FairSpec == Spec /\ \A a \in 1..MaxAttempts : WF_vars(ScriptStep(a))

(* The whole portal: /configure and its scripts together with the two     *)
(* read-only routes /scan and /status, which may be called at any moment.  *)

PortalConfigure == \E c \in PortalCalls : configure_wifi(c[1], c[2])

Scan == \E cmd \in PortalScanCmds : scan_networks(cmd)

Status == \E c \in StatusCalls : status(c[1], c[2])

PortalNext ==
    PortalConfigure \/ Join \/ Grace \/ Verify \/ Settle \/ ApDown \/ Scan \/ Status

PortalSpec == Init /\ [][PortalNext]_vars

(* get_available_networks on its own: one scan output, one call of /scan. *)

ScanInit ==
    /\ attempts = <<>>
    /\ apUp = TRUE
    /\ response = NoResponse
    /\ input \in {[kind |-> "scan", cmd |-> cmd] : cmd \in ScanCmds}

ScanApply == scan_networks(input.cmd)

ScanSpec == ScanInit /\ [][ScanApply]_vars

(* The validators on their own: one string, used as SSID and as passphrase, *)
(* and a hidden flag; `accepted` is whether /configure lets them through.   *)

ValidatorInputs ==
    UNION { { [kind |-> "validate", text |-> Rep(ch, n), hidden |-> h]
              : ch \in {"a", " "}, h \in BOOLEAN }
            : n \in 0..MaxTextLen }

ValidatorInit ==
    /\ attempts = <<>>
    /\ apUp = TRUE
    /\ response = NoResponse
    /\ input \in ValidatorInputs

ValidatorApply ==
    /\ response' =
         [ssid_ok     |-> validate_ssid(input.text),
          password_ok |-> validate_password(input.text),
          accepted    |-> ConfigureOutcome(
                              Req(TRUE, input.text, input.text, input.hidden), "ok")
                            = "started"]
    /\ UNCHANGED <<attempts, apUp, input>>

ValidatorSpec == ValidatorInit /\ [][ValidatorApply]_vars

(* ------------------------- vocabulary of the claims ------------------- *)

Attempts == 1..Len(attempts)

\* The script is waiting on an external command that never returns.
Blocked(a) == attempts[a].pc \in {"join_blocked", "check_blocked", "teardown_blocked"}

\* Applying: the join executable has not returned yet.
Applying(a) == attempts[a].pc \in {"join", "join_blocked"}

\* WaitingForConnection: grace interval or active-connection check pending.
WaitingForConnection(a) == attempts[a].pc \in {"sleep30", "check", "check_blocked"}

\* The background script of attempt a has not exited.
WatchdogRunning(a) == attempts[a].pc # "done"

\* The request passes both validators (on the stripped SSID, as the handler
\* applies them).
ValidCredentials(req) ==
    validate_ssid(strip(req.ssid)) /\ validate_password(req.password)

(* -------------------------------- C1 ---------------------------------- *)

\* C1: at most one attempt is Applying or WaitingForConnection and at most
\* one background script is running, in every reachable state.
C1_AtMostOneInFlight ==
    /\ Cardinality({a \in Attempts : Applying(a) \/ WaitingForConnection(a)}) <= 1
    /\ Cardinality({a \in Attempts : WatchdogRunning(a)}) <= 1

(* -------------------------------- C2 ---------------------------------- *)

\* C2: a script issues the teardown command only after its own check, made
\* after the grace interval, was positive; it issues it at most once, and
\* exactly once by the time a script with a positive check has finished.
C2_TeardownAfterPositiveCheck ==
    \A a \in Attempts :
        LET att == attempts[a] IN
        /\ att.teardowns <= 1
        /\ (att.teardowns > 0 \/ att.pc \in {"sleep5", "teardown", "teardown_blocked"})
              => (att.grace /\ att.matched /\ att.outcome = "Connected")
        /\ (att.pc = "done" /\ att.matched) => att.teardowns = 1

C2_Witness ==
    \E a \in Attempts :
        attempts[a].pc = "done" /\ attempts[a].matched /\ attempts[a].teardowns = 1

(* -------------------------------- C3 ---------------------------------- *)

\* C3: a script whose check did not find the SSID resolves to FailedKeepAP,
\* has finished, and has issued no teardown.
C3_NoTeardownOnFailure ==
    \A a \in Attempts :
        LET att == attempts[a] IN
        /\ (att.outcome # "none" /\ ~att.matched)
              => (att.outcome = "FailedKeepAP" /\ att.pc = "done" /\ att.teardowns = 0)
        /\ att.outcome = "FailedKeepAP" => (~att.matched /\ att.teardowns = 0)

C3_Witness ==
    \E a \in Attempts :
        /\ attempts[a].outcome = "FailedKeepAP"
        /\ attempts[a].pc = "done"
        /\ attempts[a].teardowns = 0
        /\ apUp

(* -------------------------------- C4 ---------------------------------- *)

\* The calls whose SSID (stripped) or passphrase fails its validator.
InvalidCalls ==
    UNION { IF c[1].hasBody /\ ~ValidCredentials(c[1]) THEN {c} ELSE {} : c \in Calls }

\* C4: a /configure request with a body whose SSID or passphrase fails its
\* validator is answered 400 {success:false}; no attempt is created and the
\* AP is untouched.
C4_ValidationGate ==
    [][\A c \in InvalidCalls :
         configure_wifi(c[1], c[2])
            => /\ response'.status = 400
               /\ response'.success = FALSE
               /\ attempts' = attempts
               /\ apUp' = apUp]_vars

C4_Witness ==
    /\ response.status = 400
    /\ \E a \in Attempts : WatchdogRunning(a)

(* -------------------------------- C5 ---------------------------------- *)

\* C5: when an attempt resolves to FailedKeepAP and the AP was up when the
\* attempt started, the AP is up.
C5_NeverStranded ==
    [][\A a \in Attempts :
         (/\ attempts[a].outcome = "none"
          /\ attempts'[a].outcome = "FailedKeepAP"
          /\ attempts[a].apAtStart)
            => apUp']_vars

(* -------------------------------- C6 ---------------------------------- *)

\* C6: every accepted attempt eventually finishes in Connected or
\* FailedKeepAP.
C6_RunsToCompletion ==
    \A a \in 1..MaxAttempts :
        (a <= Len(attempts))
           ~> (/\ a <= Len(attempts)
               /\ attempts[a].pc = "done"
               /\ attempts[a].outcome \in {"Connected", "FailedKeepAP"})

(* -------------------------------- C7 ---------------------------------- *)

\* C7: a script waiting on an external command that never returns is not
\* stuck: a timeout lets it take its next step.
C7_CommandsBounded ==
    \A a \in Attempts : Blocked(a) => ENABLED ScriptStep(a)

(* -------------------------------- C8 ---------------------------------- *)

\* C8: when /configure answers success, the script it launched has not yet
\* run the join executable (nor waited, nor checked), and the response holds
\* only status, success and the fixed "started" message.
C8_NonBlockingAck ==
    [][\A c \in Calls :
         (response'.status = 200 /\ configure_wifi(c[1], c[2]))
            => /\ Len(attempts') = Len(attempts) + 1
               /\ LET att == attempts'[Len(attempts')] IN
                    /\ att.pc = "join"
                    /\ att.join = "pending"
                    /\ ~att.grace
                    /\ att.outcome = "none"
               /\ DOMAIN response' = {"status", "success", "message"}
               /\ response'.success = TRUE
               /\ response'.message = "started"]_vars

\* A success answer is given while an earlier script is still in flight and
\* the new one has not run its join.
C8_Witness ==
    /\ response.status = 200
    /\ Len(attempts) = 2
    /\ Applying(1) \/ WaitingForConnection(1)
    /\ attempts[2].pc = "join"

(* -------------------------------- C9 ---------------------------------- *)

\* C9: whatever the join executable's exit status, a script decides only
\* after the grace interval, and it resolves to Connected exactly when the
\* check matched; a script that has exited has made that decision.
C9_JoinExitNotDecisive ==
    \A a \in Attempts :
        LET att == attempts[a] IN
        /\ att.outcome # "none"
              => /\ att.join \in {"exit0", "exit1"}
                 /\ att.grace
                 /\ (att.outcome = "Connected" <=> att.matched)
        /\ (att.join = "exit1" /\ att.pc = "done") => (att.grace /\ att.outcome # "none")

C9_Witness ==
    /\ \E a \in Attempts : attempts[a].join = "exit1" /\ attempts[a].outcome = "Connected"
    /\ \E a \in Attempts : attempts[a].join = "exit0" /\ attempts[a].outcome = "FailedKeepAP"

(* -------------------------------- C10 --------------------------------- *)

\* The calls that raise: no request body, or a valid request whose launch
\* fails.
FailingCalls ==
    UNION { IF ~c[1].hasBody \/ (ValidCredentials(c[1]) /\ c[2] # "ok") THEN {c} ELSE {}
            : c \in Calls }

\* C10: a /configure request without a body, or a valid one whose launch
\* fails, is answered 500 {success:false}; no script is started and the AP
\* is untouched.
C10_DispatchFailure ==
    [][\A c \in FailingCalls :
         configure_wifi(c[1], c[2])
            => /\ response'.status = 500
               /\ response'.success = FALSE
               /\ attempts' = attempts
               /\ apUp' = apUp]_vars

C10_Witness ==
    /\ response.status = 500
    /\ Len(attempts) = 1
    /\ apUp

(* -------------------------------- C11 --------------------------------- *)

\* The numeric value of a signal field, 0 when it is not a number.
SignalLevel(signal) == IF isdigit(signal) THEN int(signal) ELSE 0

\* The fields of the lines of the scan output that was handed in.
ScannedParts ==
    LET lines == split(strip(input.cmd.stdout), "\n") IN
    [k \in 1..Len(lines) |-> split(lines[k], ":")]

\* The first line that names the SSID and has a signal field.
FirstLineFor(ssid) ==
    CHOOSE k \in 1..Len(ScannedParts) :
        /\ Len(ScannedParts[k]) >= 2 /\ ScannedParts[k][1] = ssid
        /\ \A m \in 1..(k - 1) :
             ~(Len(ScannedParts[m]) >= 2 /\ ScannedParts[m][1] = ssid)

C12_CredentialBounds ==
    (input.kind = "validate" /\ response # NoResponse)
       => LET n == Len(input.text) IN
          /\ response.ssid_ok     <=> (1 <= n /\ n <= 32)
          /\ response.password_ok <=> (8 <= n /\ n <= 63)
          /\ response.accepted
               <=> (/\ 1 <= Len(strip(input.text)) /\ Len(strip(input.text)) <= 32
                    /\ 8 <= n /\ n <= 63)

\* A 32-character string passes both validators, hidden flag set.
C12_Witness ==
    /\ input.kind = "validate" /\ response # NoResponse
    /\ input.hidden
    /\ Len(input.text) = 32
    /\ response.ssid_ok /\ response.password_ok /\ response.accepted


(* -------------------------------- C13 --------------------------------- *)

\* The external command of a read-side route exited non-zero or timed out.
Failed(cmd) == run_command(cmd).code # 0

\* C13: /scan and /status always answer 200 and never change an attempt or
\* the setup AP; when the scan query fails /scan answers with an empty list,
\* and when either status query fails /status answers
\* {connected: false, ssid: none, ip: none}.
C13_ReadSideFailurePolicy ==
    [][ /\ \A cmd \in PortalScanCmds :
             scan_networks(cmd) =>
                 /\ response'.status = 200
                 /\ Failed(cmd) => response'.networks = <<>>
                 /\ attempts' = attempts
                 /\ apUp' = apUp
        /\ \A c \in StatusCalls :
             status(c[1], c[2]) =>
                 /\ response'.status = 200
                 /\ (Failed(c[1]) \/ Failed(c[2])) =>
                        response' = StatusResponse(FALSE, None, None)
                 /\ attempts' = attempts
                 /\ apUp' = apUp
      ]_vars

\* A failed status query was answered with the default while a script was in
\* its settle delay, about to take the AP down.
C13_Witness ==
    /\ response = StatusResponse(FALSE, None, None)
    /\ apUp
    /\ \E a \in Attempts : attempts[a].pc = "sleep5"

(* -------------------------------- C14 --------------------------------- *)

\* C14: an attempt resolves to Connected, and runs the teardown command,
\* only if a connection named exactly like the requested SSID was in the
\* active-connection list at its check.
C14_ConfirmationIsExact ==
    \A a \in Attempts :
        (attempts[a].outcome = "Connected" \/ attempts[a].teardowns > 0)
            => attempts[a].exact

(* -------------------------------- C15 --------------------------------- *)

\* The order of the script's lines: each step leads to the next one, to the
\* end of the script, or blocks in its command.
PhaseEdges ==
    { <<"join", "sleep30">>, <<"join", "join_blocked">>,
      <<"sleep30", "check">>,
      <<"check", "sleep5">>, <<"check", "done">>, <<"check", "check_blocked">>,
      <<"sleep5", "teardown">>,
      <<"teardown", "done">>, <<"teardown", "teardown_blocked">> }

\* C15: within one attempt the steps happen in the order join, grace
\* interval, active-connection check, and only after a positive check settle
\* delay and AP teardown; the check is reached only once the join has
\* returned and the grace interval has elapsed; no step is skipped or taken
\* twice.
C15_PhaseOrdering ==
    [][ \A a \in Attempts :
          LET old == attempts[a]
              new == attempts'[a]
          IN  /\ old.pc # new.pc => <<old.pc, new.pc>> \in PhaseEdges
              /\ new.pc \in {"check", "check_blocked", "sleep5", "teardown",
                             "teardown_blocked", "done"}
                   => new.join \in {"exit0", "exit1"} /\ new.grace
              /\ new.pc \in {"sleep5", "teardown", "teardown_blocked"}
                   => new.matched
              /\ new.teardowns # old.teardowns
                   => /\ old.pc = "teardown"
                      /\ old.matched
                      /\ new.teardowns = old.teardowns + 1
      ]_vars

\* An attempt went through every step: rejected join, grace interval,
\* positive check, settle delay, one teardown, end of script.
C15_Witness ==
    \E a \in Attempts :
        /\ attempts[a].pc = "done"
        /\ attempts[a].join = "exit1"
        /\ attempts[a].grace
        /\ attempts[a].matched
        /\ attempts[a].teardowns = 1

(* -------------------------------- C16 --------------------------------- *)

\* The teardown command of attempt a returns in this step, with whatever
\* exit status, and the script ends.
TeardownFinishes(a) ==
    attempts[a].pc = "teardown" /\ attempts'[a].pc = "done"

\* C16 as stated: whenever the teardown step of an attempt finishes, the
\* attempt is Connected and the setup AP is down, whether it was up or down
\* before and whether or not the command succeeded.
C16_TeardownLeavesApDown ==
    [][ \A a \in Attempts :
          TeardownFinishes(a) =>
              attempts'[a].outcome = "Connected" /\ ~apUp'
      ]_vars

\* C16, amended: the teardown step is never an error.  Once its command has
\* run, the attempt is still Connected and the command ran once more; it
\* never brings the AP up, and an AP that was already down stays down.
\* When the command returns, with whatever exit status, the script ends.
\* The AP is not necessarily down afterwards: a failing command leaves an
\* AP that was up as it was.
C16_TeardownNeverAnError ==
    [][ \A a \in Attempts :
          (attempts[a].pc = "teardown" /\ attempts'[a].pc # "teardown") =>
              /\ attempts'[a].outcome = "Connected"
              /\ attempts'[a].teardowns = attempts[a].teardowns + 1
              /\ attempts'[a].pc \in {"done", "teardown_blocked"}
              /\ apUp' => apUp
      ]_vars

\* A script ended Connected after its one teardown command, and the setup
\* AP is still up: the command failed and the failure was ignored.
C16_Witness ==
    /\ Len(attempts) = 1
    /\ attempts[1].pc = "done"
    /\ attempts[1].outcome = "Connected"
    /\ attempts[1].teardowns = 1
    /\ apUp

(* -------------------------------- C17 --------------------------------- *)

\* C17: each accepted /configure request starts one attempt whose join
\* command line, as bash reads it, is the join executable with the validated
\* SSID, the passphrase, the priority 200 and --hidden exactly when the
\* request asked for a hidden network; the pattern of the later check is
\* that same SSID; the command line and the SSID never change afterwards
\* and the join step is never entered again.
C17_JoinInvocation ==
    [][ /\ \A c \in Calls :
             (configure_wifi(c[1], c[2]) /\ response'.status = 200) =>
                 LET new   == attempts'[Len(attempts')]
                     words == BashWords(new.cmd)
                 IN  /\ Len(attempts') = Len(attempts) + 1
                     /\ new.pc = "join"
                     /\ new.ssid = strip(c[1].ssid)
                     /\ validate_ssid(new.ssid)
                     /\ Len(words) = IF c[1].hidden THEN 6 ELSE 5
                     /\ words[1] = <<"b","a","s","h">>
                     /\ words[2] = CONFIGURE_WIFI_SCRIPT
                     /\ words[3] = new.ssid
                     /\ words[4] = c[1].password
                     /\ int(words[5]) = Priority
                     /\ c[1].hidden => words[6] = <<"-","-","h","i","d","d","e","n">>
                     /\ ShellWord(new.ssid) = new.ssid
        /\ \A a \in Attempts :
             /\ attempts'[a].cmd = attempts[a].cmd
             /\ attempts'[a].ssid = attempts[a].ssid
             /\ attempts'[a].pc = "join" => attempts[a].pc = "join"
      ]_vars

(* -------------------------------- C18 --------------------------------- *)

\* C18: no step of /configure, of a background script, of /scan or of
\* /status brings the setup AP up: the AP is up after a step only if it was
\* up before it, so once it is down it is down in every later state.
C18_ApOnlyGoesDown ==
    [][apUp' => apUp]_vars

\* The AP is down after the teardown of a Connected attempt, and the last
\* answer given is one of /status.
C18_Witness ==
    /\ ~apUp
    /\ \E a \in Attempts :
         /\ attempts[a].pc = "done"
         /\ attempts[a].outcome = "Connected"
         /\ attempts[a].teardowns = 1
    /\ "connected" \in DOMAIN response

====
